---- MODULE Spec2Model ----
(***************************************************************************)
(* A model of the SVG-to-STL puzzle generator:                             *)
(*   puzzle_processor/exporter.py   write_stl                              *)
(*   puzzle_processor/geometry.py   extend_line, discretize_path           *)
(*   puzzle_processor/core.py       PuzzleProcessor.run                    *)
(*   generate_stl.py                process_puzzle (the script's pipeline) *)
(*                                                                         *)
(* Numbers.  Python floats are modelled by exact integers and rationals.   *)
(* Curve coordinates (discretizer, extender) are counted in units of 1e-6  *)
(* so that the code's thresholds 1e-6, 1e-5, 1e-3 and its rounding to 4    *)
(* decimals are the integers 1, 10, 1000 and 100.  Mesh coordinates (the   *)
(* pieces handed back by shapely, the thickness) are integers.  Float      *)
(* rounding error of the arithmetic itself is not modelled.                *)
(***************************************************************************)
EXTENDS Integers, Sequences, FiniteSets, TLC

VARIABLES
    \* ---- write_stl called on its own (SpecStl)
    stl_in,          \* the list of triangles handed to write_stl
    stl_file,        \* the bytes of the file written, <<>> before the call
    stl_pc,          \* "idle" | "call" | "written"
    \* ---- extend_line called on its own (SpecExtend)
    ext_in,          \* the coordinates of the LineString handed to extend_line
    ext_dist,        \* its dist argument
    ext_out,         \* the coordinates of the LineString returned
    ext_pc,          \* "idle" | "call" | "returned"
    \* ---- discretize_path, one loop iteration per step (SpecDiscretize)
    path,            \* the path: a sequence of segments
    density,         \* the density argument
    seg_i,           \* index of the next segment of the for loop
    current_points,  \* the running polyline
    lines,           \* the polylines flushed so far
    disc_pc,         \* "idle" | "loop" | "returned"
    \* ---- one run of the pipeline (Spec); it shares lines and density
    entry,           \* "run" (PuzzleProcessor.run) | "process_puzzle"
    pc,              \* the statement the run is at, "idle" outside Spec
    input_kind,      \* "missing" | "malformed" | "svg": the input file
    paths,           \* what svg2paths returns for it
    path_i,          \* index of the next path of "for path in paths"
    thickness,       \* self.thickness / args.thickness
    noded_empty,     \* noded_lines.is_empty
    polygons,        \* list(polygonize(noded_lines)), each face given by
                     \* what poly.buffer(tolerance) makes of it
    face_i,          \* index of the next face of "for i, poly in ..."
    target_polys,    \* the pieces of the face at hand
    piece_i,         \* index of the next piece of "for piece in ..."
    mesh,            \* triangulate(piece)
    tri_i,           \* index of the next triangle of "for tri in mesh"
    ring_i,          \* index of the next ring of "for boundary in ..."
    edge_j,          \* j of "for j in range(len(coords) - 1)", from 1
    piece_base,      \* len(all_triangles) when the piece at hand began
    all_triangles,   \* the mesh
    out_file,        \* the bytes of the output file, <<>> if not written
    writes,          \* number of write_stl calls
    printed,         \* the kinds of message printed so far
    outcome,         \* "running" | "FileNotFoundError" | "ValueError"
                     \* | "returned" (without "Success") | "success"
    \* ---- the desktop UI (SpecUi): the Tk main loop and its worker threads
    ui_process,      \* self.process: 0 for None, else the run whose Popen it is
    ui_button,       \* state of generate_btn: "normal" | "disabled"
    ui_queue,        \* self.log_queue: items <<kind, run>>
    ui_log,          \* what _append_log has shown of the queue, in order
    ui_alive,        \* the runs whose subprocess is running
    ui_left,         \* per run, the output lines not yet read from its pipe
    ui_rc,           \* per run, the subprocess's return code (-1: none yet)
    ui_worker,       \* per run, where its _run_process thread is
    ui_started,      \* number of worker threads started so far
    ui_close,        \* "open" | "asking" (askyesno is up) | "closed"
    \* ---- one POST /generate of the HTTP service (SpecHttp)
    http_pc,         \* the statement the handler is at, "idle" outside SpecHttp
    http_req,        \* the request: which validations it passes
    http_files,      \* the temporary files that exist: subset of {"svg", "stl"}
    http_size,       \* size in bytes of the output temporary file
    http_created,    \* the handler got past the NamedTemporaryFile calls
    http_cleanup,    \* the after_this_request cleanup is registered
    http_status      \* status of the response, 0 before there is one

stlVars  == <<stl_in, stl_file, stl_pc>>
extVars  == <<ext_in, ext_dist, ext_out, ext_pc>>
discVars == <<path, density, seg_i, current_points, lines, disc_pc>>
runVars  == <<entry, pc, input_kind, paths, path_i, thickness, noded_empty,
              polygons, face_i, target_polys, piece_i, mesh, tri_i, ring_i,
              edge_j, piece_base, all_triangles, out_file, writes, printed,
              outcome>>
uiVars   == <<ui_process, ui_button, ui_queue, ui_log, ui_alive, ui_left,
              ui_rc, ui_worker, ui_started, ui_close>>
httpVars == <<http_pc, http_req, http_files, http_size, http_created,
              http_cleanup, http_status>>
svcVars  == <<uiVars, httpVars>>
vars     == <<stlVars, extVars, discVars, runVars, svcVars>>

(***************************************************************************)
(* Arithmetic helpers                                                      *)
(***************************************************************************)
Abs(x) == IF x < 0 THEN -x ELSE x

Max(a, b) == IF a >= b THEN a ELSE b

\* The integer nearest to num/den (den > 0), ties to the even integer: what
\* Python's round() and IEEE-754 round-to-nearest do on an exact value.
RoundHalfEven(num, den) ==
    LET q == num \div den
        r == num % den
    IN  IF 2 * r < den THEN q
        ELSE IF 2 * r > den THEN q + 1
        ELSE IF q % 2 = 0 THEN q ELSE q + 1

\* Exact integer square root; defined on perfect squares only, which is what
\* the input sets below are restricted to.
ISqrt(s) == CHOOSE n \in 0..(s+1) : n * n = s

RECURSIVE Flatten(_)
Flatten(ss) == IF ss = <<>> THEN <<>> ELSE Head(ss) \o Flatten(Tail(ss))

(***************************************************************************)
(* struct.pack: the byte strings write_stl writes                          *)
(***************************************************************************)
\* struct.pack('<I', n): 4 bytes, least significant first (n < 2^32; struct
\* raises beyond that, which no list in memory reaches)
PackU32(n) ==
    << n % 256, (n \div 256) % 256, (n \div 65536) % 256, (n \div 16777216) % 256 >>

\* struct.pack('<H', n)
PackU16(n) == << n % 256, (n \div 256) % 256 >>

RECURSIVE Exponent(_, _)
\* floor(log2(a / den)) for a, den > 0
Exponent(a, den) ==
    IF a >= 2 * den THEN Exponent(a, 2 * den) + 1
    ELSE IF a < den THEN Exponent(2 * a, den) - 1
    ELSE 0

\* struct.pack('<f', num/den): the IEEE-754 single nearest to num/den
\* (den > 0, 2^-24 <= |num/den| < 2^24 or num = 0), least significant byte
\* first.  A zero is written as +0.0.
PackF(num, den) ==
    IF num = 0 THEN <<0, 0, 0, 0>>
    ELSE
      LET a    == Abs(num)
          s    == IF num < 0 THEN 1 ELSE 0
          e0   == Exponent(a, den)
          m0   == RoundHalfEven(a * (2^(23 - e0)), den)
          e    == IF m0 = 2^24 THEN e0 + 1 ELSE e0
          m    == IF m0 = 2^24 THEN 2^23 ELSE m0
          frac == m - 2^23
          ex   == e + 127
      IN  << frac % 256,
             (frac \div 256) % 256,
             (ex % 2) * 128 + (frac \div 65536),
             s * 128 + (ex \div 2) >>

(***************************************************************************)
(* write_stl (exporter.py, and its copy in generate_stl.py)                *)
(***************************************************************************)
Sub3(a, b) == << a[1] - b[1], a[2] - b[2], a[3] - b[3] >>

\* np.cross(edge1, edge2)
Cross3(a, b) ==
    << a[2] * b[3] - a[3] * b[2],
       a[3] * b[1] - a[1] * b[3],
       a[1] * b[2] - a[2] * b[1] >>

NormSq3(n) == n[1] * n[1] + n[2] * n[2] + n[3] * n[3]

\* The un-normalised normal of triangle t
RawNormal(t) == Cross3(Sub3(t[2], t[1]), Sub3(t[3], t[1]))

\* The 12 bytes of the normal: zero for a degenerate triangle, else
\* normal / norm
NormalBytes(t) ==
    LET n  == RawNormal(t)
        sq == NormSq3(n)
    IN  IF sq = 0 THEN PackF(0, 1) \o PackF(0, 1) \o PackF(0, 1)
        ELSE LET norm == ISqrt(sq)
             IN  PackF(n[1], norm) \o PackF(n[2], norm) \o PackF(n[3], norm)

VertexBytes(v) == PackF(v[1], 1) \o PackF(v[2], 1) \o PackF(v[3], 1)

\* A record without its attribute byte count (48 bytes)
TriangleRecordNoAttr(t) ==
    NormalBytes(t) \o VertexBytes(t[1]) \o VertexBytes(t[2]) \o VertexBytes(t[3])

\* One 50-byte record: normal, three vertices, attribute byte count 0
TriangleRecord(t) ==
    NormalBytes(t) \o VertexBytes(t[1]) \o VertexBytes(t[2]) \o VertexBytes(t[3])
      \o PackU16(0)

STLHeader == [i \in 1..80 |-> 0]

\* The bytes write_stl leaves in the file
write_stl(triangles) ==
    STLHeader
      \o PackU32(Len(triangles))
      \o Flatten([i \in 1..Len(triangles) |-> TriangleRecord(triangles[i])])


(***************************************************************************)
(* 2-D vectors                                                             *)
(***************************************************************************)
Sub2(a, b) == << a[1] - b[1], a[2] - b[2] >>

NormSq2(v) == v[1] * v[1] + v[2] * v[2]

Cross2(a, b) == a[1] * b[2] - a[2] * b[1]

Dot2(a, b) == a[1] * b[1] + a[2] * b[2]

\* np.linalg.norm(vec) / abs(complex): exact on axis-parallel vectors and on
\* vectors of integer length, the only ones the input sets hold
Norm2(v) ==
    IF v[1] = 0 THEN Abs(v[2])
    ELSE IF v[2] = 0 THEN Abs(v[1])
    ELSE CHOOSE n \in 0..(Abs(v[1]) + Abs(v[2])) : n * n = NormSq2(v)

HasIntNorm(v) ==
    \/ v[1] = 0
    \/ v[2] = 0
    \/ \E n \in 0..(Abs(v[1]) + Abs(v[2])) : n * n = NormSq2(v)

(***************************************************************************)
(* extend_line (geometry.py, and its copy in generate_stl.py)              *)
(***************************************************************************)
\* 1e-6 in units of 1e-6: an end is extended only if its edge is longer
ExtendEps == 1

\* (x / norm) * dist, exact where the integers hold the value
Scaled(x, norm, dist) ==
    IF x % norm = 0 THEN (x \div norm) * dist ELSE (x * dist) \div norm

\* p + (vec / norm) * dist
Pushed(p, vec, norm, dist) ==
    << p[1] + Scaled(vec[1], norm, dist), p[2] + Scaled(vec[2], norm, dist) >>

\* A start extension that pushes point 0 towards point 1 instead of away
ExtendStartInward(coords, dist) ==
    LET p0   == coords[1]
        p1   == coords[2]
        vec  == Sub2(p1, p0)
        norm == Norm2(vec)
    IN  IF norm > ExtendEps
        THEN [coords EXCEPT ![1] = Pushed(p0, vec, norm, dist)]
        ELSE coords

\* "Start extension": coords[0] is replaced in the list
ExtendStart(coords, dist) ==
    LET p0   == coords[1]
        p1   == coords[2]
        vec  == Sub2(p0, p1)
        norm == Norm2(vec)
    IN  IF norm > ExtendEps
        THEN [coords EXCEPT ![1] = Pushed(p0, vec, norm, dist)]
        ELSE coords

\* "End extension": reads coords[-1] and coords[-2] of the list as the start
\* extension left it (for a 2-point line coords[-2] is the moved first point)
ExtendEnd(coords, dist) ==
    LET n    == Len(coords)
        pn   == coords[n]
        pn1  == coords[n - 1]
        vec  == Sub2(pn, pn1)
        norm == Norm2(vec)
    IN  IF norm > ExtendEps
        THEN [coords EXCEPT ![n] = Pushed(pn, vec, norm, dist)]
        ELSE coords

\* extend_line(line, dist) on the line's coordinate list; an empty line (or
\* one of fewer than 2 points) is returned as it is
extend_line(coords, dist) ==
    IF Len(coords) < 2 THEN coords
    ELSE ExtendEnd(ExtendStart(coords, dist), dist)

(***************************************************************************)
(* discretize_path (geometry.py; PuzzleProcessor.run and process_puzzle    *)
(* carry the same loop inline, flushing through extend_line)               *)
(***************************************************************************)
\* 1e-5, 1e-3 and 1e-4 (4 decimals) in units of 1e-6
MinSegLen == 10

FlushDist == 1000

RoundGrain == 100

\* EXTENSION_DIST = 1.0
EXTENSION_DIST == 1000000

\* segment.length() of a Line segment
Length(seg) == Norm2(Sub2(seg.end, seg.start))

\* count = max(2, int(length / density)) with the quotient rounded up
SampleCountCeil(length, d) == Max(2, (length + d - 1) \div d)

\* count = max(2, int(length / density))
SampleCount(length, d) == Max(2, length \div d)

\* round(x, 4) of the exact value num/den
Round4(num, den) == RoundGrain * RoundHalfEven(num, RoundGrain * den)

\* (round(p.real, 4), round(p.imag, 4)) for p = segment.point(i / count),
\* point(t) = start + t * (end - start)
SamplePoint(seg, i, count) ==
    << Round4(seg.start[1] * count + i * (seg.end[1] - seg.start[1]), count),
       Round4(seg.start[2] * count + i * (seg.end[2] - seg.start[2]), count) >>

\* abs(segment.start - last_p) > 1e-3
Discontinuous(seg, cp) ==
    NormSq2(Sub2(seg.start, cp[Len(cp)])) > FlushDist * FlushDist

\* The polyline a flush appends: LineString(current_points), which run and
\* process_puzzle pass through extend_line(ls, EXTENSION_DIST)
FlushLine(cp, extend) == IF extend THEN extend_line(cp, EXTENSION_DIST) ELSE cp

\* One iteration of "for segment in path" with the length test made before
\* the discontinuity test
SegmentStepSkipFirst(cp, ls, seg, d, extend) ==
    IF Length(seg) < MinSegLen THEN [cp |-> cp, ls |-> ls]
    ELSE
      LET flush == cp # <<>> /\ Discontinuous(seg, cp)
          ls1   == IF flush /\ Len(cp) > 1
                   THEN Append(ls, FlushLine(cp, extend)) ELSE ls
          cp1   == IF flush THEN <<>> ELSE cp
          count == SampleCount(Length(seg), d)
          cp2   == IF cp1 = <<>> THEN << SamplePoint(seg, 0, count) >> ELSE cp1
      IN  [cp |-> cp2 \o [i \in 1..count |-> SamplePoint(seg, i, count)],
           ls |-> ls1]

\* One iteration of "for segment in path": the running polyline and the
\* flushed polylines after it
SegmentStep(cp, ls, seg, d, extend) ==
    LET flush == cp # <<>> /\ Discontinuous(seg, cp)
        ls1   == IF flush /\ Len(cp) > 1
                 THEN Append(ls, FlushLine(cp, extend)) ELSE ls
        cp1   == IF flush THEN <<>> ELSE cp
    IN  IF Length(seg) < MinSegLen THEN [cp |-> cp1, ls |-> ls1]
        ELSE
          LET count == SampleCount(Length(seg), d)
              cp2   == IF cp1 = <<>> THEN << SamplePoint(seg, 0, count) >>
                       ELSE cp1
          IN  [cp |-> cp2 \o [i \in 1..count |-> SamplePoint(seg, i, count)],
               ls |-> ls1]

\* "Flush path end"
PathEnd(cp, ls, extend) ==
    IF Len(cp) > 1 THEN Append(ls, FlushLine(cp, extend)) ELSE ls


(***************************************************************************)
(* write_stl on its own: every list of up to MaxTris triangles             *)
(***************************************************************************)
MaxTris == 3

\* A top cap, a bottom cap, a wall, a degenerate (collinear) triangle and a
\* slanted one with normal (0, 3/5, 4/5)
StlTriangles ==
    { << <<0, 0, 3>>, <<1, 0, 3>>, <<1, 1, 3>> >>,
      << <<0, 0, 0>>, <<1, 1, 0>>, <<1, 0, 0>> >>,
      << <<0, 0, 0>>, <<1, 0, 0>>, <<1, 0, 3>> >>,
      << <<0, 0, 0>>, <<1, 1, 1>>, <<2, 2, 2>> >>,
      << <<0, 0, 0>>, <<1, 0, 0>>, <<0, 4, -3>> >> }

SeqsUpTo(S, n) == UNION { [1..k -> S] : k \in 0..n }

StlIdle == stl_in = <<>> /\ stl_file = <<>> /\ stl_pc = "idle"

ExtIdle == ext_in = <<>> /\ ext_dist = 0 /\ ext_out = <<>> /\ ext_pc = "idle"

DiscIdle ==
    /\ path = <<>> /\ density = 1 /\ seg_i = 1
    /\ current_points = <<>> /\ lines = <<>> /\ disc_pc = "idle"

RunIdle ==
    /\ entry = "run" /\ pc = "idle" /\ input_kind = "svg" /\ paths = <<>>
    /\ path_i = 1 /\ thickness = 1 /\ noded_empty = FALSE /\ polygons = <<>>
    /\ face_i = 1 /\ target_polys = <<>> /\ piece_i = 1 /\ mesh = <<>>
    /\ tri_i = 1 /\ ring_i = 1 /\ edge_j = 1 /\ piece_base = 0
    /\ all_triangles = <<>> /\ out_file = <<>> /\ writes = 0
    /\ printed = {} /\ outcome = "running"

\* The generations started in one life of the window
MaxRuns == 2

Runs == 1..MaxRuns

UiIdle ==
    /\ ui_process = 0 /\ ui_button = "normal" /\ ui_queue = <<>>
    /\ ui_log = <<>> /\ ui_alive = {} /\ ui_left = [r \in Runs |-> 0]
    /\ ui_rc = [r \in Runs |-> -1] /\ ui_worker = [r \in Runs |-> "none"]
    /\ ui_started = 0 /\ ui_close = "idle"

HttpIdle ==
    /\ http_pc = "idle" /\ http_req = <<>> /\ http_files = {}
    /\ http_size = 0 /\ http_created = FALSE /\ http_cleanup = FALSE
    /\ http_status = 0

SvcIdle == UiIdle /\ HttpIdle

StlInit ==
    /\ stl_in \in SeqsUpTo(StlTriangles, MaxTris)
    /\ stl_file = <<>>
    /\ stl_pc = "call"
    /\ ExtIdle /\ DiscIdle /\ RunIdle /\ SvcIdle

\* write_stl(triangles, filename)
WriteStlCall ==
    /\ stl_pc = "call"
    /\ stl_file' = write_stl(stl_in)
    /\ stl_pc' = "written"
    /\ UNCHANGED <<stl_in, extVars, discVars, runVars, svcVars>>

StlNext == WriteStlCall

SpecStl == StlInit /\ [][StlNext]_vars

(***************************************************************************)
(* extend_line on its own                                                  *)
(***************************************************************************)
MaxLinePts == 3

ExtPoints ==
    { <<0, 0>>, <<1, 0>>, <<2, 0>>, <<0, 7>>, <<3, 4>>, <<6, 8>>, <<-3, -4>> }

ExtDists == {0, 5, 10}

\* The edge p -> q has a length, and a push by dist along it a value, that
\* the integers hold exactly
ExactEdge(p, q, dist) ==
    LET vec == Sub2(q, p)
    IN  /\ HasIntNorm(vec)
        /\ Norm2(vec) > 0 =>
             /\ (vec[1] * dist) % Norm2(vec) = 0
             /\ (vec[2] * dist) % Norm2(vec) = 0

ExtLines ==
    { c \in SeqsUpTo(ExtPoints, MaxLinePts) :
         /\ Len(c) # 1
         /\ Len(c) >= 2 => \A d \in ExtDists :
                /\ ExactEdge(c[1], c[2], d)
                /\ ExactEdge(c[Len(c) - 1], c[Len(c)], d) }

ExtInit ==
    /\ ext_in \in ExtLines
    /\ ext_dist \in ExtDists
    /\ ext_out = <<>>
    /\ ext_pc = "call"
    /\ StlIdle /\ DiscIdle /\ RunIdle /\ SvcIdle

\* extend_line(line, dist)
ExtendLineCall ==
    /\ ext_pc = "call"
    /\ ext_out' = extend_line(ext_in, ext_dist)
    /\ ext_pc' = "returned"
    /\ UNCHANGED <<ext_in, ext_dist, stlVars, discVars, runVars, svcVars>>

ExtNext == ExtendLineCall

SpecExtend == ExtInit /\ [][ExtNext]_vars

(***************************************************************************)
(* discretize_path, one segment per step                                   *)
(***************************************************************************)
MaxSegs == 3

Line(a, b) == [start |-> a, end |-> b]

\* Line segments (svgpathtools Line), coordinates in units of 1e-6: two
\* sampled ones, one of length 2e-5 that rounding collapses, and two shorter
\* than 1e-5, of which one starts where the first ends and one far away
DiscSegments ==
    { Line(<<0, 0>>, <<20000, 0>>),
      Line(<<20000, 0>>, <<20000, 12345>>),
      Line(<<20000, 0>>, <<20000, 20>>),
      Line(<<20000, 0>>, <<20000, 5>>),
      Line(<<0, 9000>>, <<0, 9005>>) }

Densities == {3000, 5000, 30000}

DiscInit ==
    /\ path \in SeqsUpTo(DiscSegments, MaxSegs)
    /\ density \in Densities
    /\ seg_i = 1
    /\ current_points = <<>>
    /\ lines = <<>>
    /\ disc_pc = "loop"
    /\ StlIdle /\ ExtIdle /\ RunIdle /\ SvcIdle

\* One iteration of "for segment in path"
DiscSegment ==
    /\ disc_pc = "loop"
    /\ seg_i <= Len(path)
    /\ LET r == SegmentStep(current_points, lines, path[seg_i], density, FALSE)
       IN  /\ current_points' = r.cp
           /\ lines' = r.ls
    /\ seg_i' = seg_i + 1
    /\ UNCHANGED <<path, density, disc_pc, stlVars, extVars, runVars,
                   svcVars>>

\* The loop is over: "Flush path end" and return lines
DiscReturn ==
    /\ disc_pc = "loop"
    /\ seg_i > Len(path)
    /\ lines' = PathEnd(current_points, lines, FALSE)
    /\ disc_pc' = "returned"
    /\ UNCHANGED <<path, density, seg_i, current_points, stlVars, extVars,
                   runVars, svcVars>>

DiscNext == DiscSegment \/ DiscReturn

SpecDiscretize == DiscInit /\ [][DiscNext]_vars

(***************************************************************************)
(* Claims about write_stl                                                  *)
(***************************************************************************)
\* The count field of a written file, read back as '<I'
CountField(f) == f[81] + 256 * f[82] + 65536 * f[83] + 16777216 * f[84]

\* C1: for every list of N triangles the file written is exactly
\* 84 + 50*N bytes long and its little-endian count field equals N.
C1_FileSize ==
    stl_pc = "written" =>
        /\ Len(stl_file) = 84 + 50 * Len(stl_in)
        /\ CountField(stl_file) = Len(stl_in)

C1_Witness == stl_pc = "written" /\ Len(stl_in) = 2 /\ Len(stl_file) = 184

(***************************************************************************)
(* Claims about discretize_path                                            *)
(***************************************************************************)
OneKeptSegment ==
    /\ disc_pc = "returned"
    /\ Len(path) = 1
    /\ Length(path[1]) >= MinSegLen

FloorCount == Max(2, Length(path[1]) \div density)

\* C6 as stated: one straight segment of length L >= 1e-5 yields one
\* polyline holding the start point, max(2, floor(L/d)) interior samples and
\* the end point, that is max(2, floor(L/d)) + 2 points.
C6_AsStated ==
    OneKeptSegment =>
        /\ Len(lines) = 1
        /\ Len(lines[1]) = FloorCount + 2

\* C6 amended: the polyline holds the start point and max(2, floor(L/d))
\* samples, the last of which is the segment's end point (so one interior
\* sample fewer than stated); first and last are the rounded start and end.
C6_Samples ==
    OneKeptSegment =>
        /\ Len(lines) = 1
        /\ Len(lines[1]) = FloorCount + 1
        /\ lines[1][1] = << Round4(path[1].start[1], 1), Round4(path[1].start[2], 1) >>
        /\ lines[1][FloorCount + 1]
             = << Round4(path[1].end[1], 1), Round4(path[1].end[2], 1) >>

C6_Witness ==
    /\ OneKeptSegment
    /\ Length(path[1]) \div density = 6
    /\ Len(lines) = 1
    /\ Len(lines[1]) = 7

ShortSegmentNext ==
    /\ disc_pc = "loop"
    /\ seg_i <= Len(path)
    /\ Length(path[seg_i]) < MinSegLen

FarFromLast ==
    /\ current_points # <<>>
    /\ NormSq2(Sub2(path[seg_i].start, current_points[Len(current_points)]))
          > 1000 * 1000

\* C7 as stated: a segment shorter than 1e-5 leaves the running polyline and
\* the flushed polylines unchanged, wherever it starts.
C7_AsStated ==
    [][ (ShortSegmentNext /\ seg_i' = seg_i + 1)
           => (current_points' = current_points /\ lines' = lines) ]_vars

\* C7 amended: a segment shorter than 1e-5 adds no sample point; it leaves
\* both unchanged if the running polyline is empty or ends within 1e-3 of the
\* segment's start, and otherwise it is a discontinuity like any other: the
\* running polyline is flushed and emptied.
C7_ShortSegment ==
    [][ (ShortSegmentNext /\ seg_i' = seg_i + 1)
           => IF FarFromLast
              THEN /\ current_points' = <<>>
                   /\ lines' = IF Len(current_points) > 1
                               THEN Append(lines, current_points) ELSE lines
              ELSE /\ current_points' = current_points
                   /\ lines' = lines ]_vars

\* A short segment has just been processed after a sampled one, and flushed it
C7_Witness ==
    /\ disc_pc = "loop"
    /\ seg_i = 3
    /\ Length(path[1]) >= MinSegLen
    /\ Length(path[2]) < MinSegLen
    /\ current_points = <<>>
    /\ Len(lines) = 1

Points(pl) == { pl[i] : i \in 1..Len(pl) }

\* C8: every polyline emitted holds at least 2 distinct points, and a path
\* with no segments emits no polyline.
C8_DistinctPoints ==
    /\ \A k \in 1..Len(lines) : Cardinality(Points(lines[k])) >= 2
    /\ (disc_pc = "returned" /\ path = <<>>) => lines = <<>>

(***************************************************************************)
(* Claims about extend_line                                                *)
(***************************************************************************)
TwoPointCase ==
    /\ ext_pc = "returned"
    /\ Len(ext_in) = 2
    /\ NormSq2(Sub2(ext_in[2], ext_in[1])) > 1

\* q lies at distance exactly e from p, in the direction dir
PushedBy(q, p, dir, e) ==
    /\ NormSq2(Sub2(q, p)) = e * e
    /\ Cross2(Sub2(q, p), dir) = 0
    /\ Dot2(Sub2(q, p), dir) >= 0

\* C9: a 2-point polyline (a,b) with |b-a| > 1e-6 comes back as (a',b') with
\* a' at distance e from a in the direction b -> a, b' at distance e from b
\* in the direction a -> b, each end landing where it would if it alone had
\* been extended.
C9_ExtendBothEnds ==
    TwoPointCase =>
        LET a == ext_in[1]
            b == ext_in[2]
        IN  /\ Len(ext_out) = 2
            /\ PushedBy(ext_out[1], a, Sub2(a, b), ext_dist)
            /\ PushedBy(ext_out[2], b, Sub2(b, a), ext_dist)
            /\ ext_out[1] = ExtendStart(ext_in, ext_dist)[1]
            /\ ext_out[2] = ExtendEnd(ext_in, ext_dist)[2]

C9_Witness ==
    /\ TwoPointCase
    /\ ext_dist = 10
    /\ ext_in = << <<0, 0>>, <<3, 4>> >>
    /\ ext_out = << <<-6, -8>>, <<9, 12>> >>


(***************************************************************************)
(* shapely, as PuzzleProcessor.run and process_puzzle use it.  A piece is  *)
(* a polygon: an exterior ring and interior rings, each the closed         *)
(* coordinate list shapely hands out (last point = first point).           *)
(***************************************************************************)
Orient(a, b, c) == Cross2(Sub2(b, a), Sub2(c, a))

\* > 0 iff d lies strictly inside the circle through a, b, c (a, b, c
\* counter-clockwise)
InCircle(a, b, c, d) ==
    LET ax == a[1] - d[1]
        ay == a[2] - d[2]
        bx == b[1] - d[1]
        by == b[2] - d[2]
        cx == c[1] - d[1]
        cy == c[2] - d[2]
    IN    (ax * ax + ay * ay) * (bx * cy - cx * by)
        - (bx * bx + by * by) * (ax * cy - cx * ay)
        + (cx * cx + cy * cy) * (ax * by - bx * ay)

Rings(piece) == << piece.exterior >> \o piece.interiors

RingEdges(ring) == { << ring[j], ring[j + 1] >> : j \in 1..(Len(ring) - 1) }

PieceEdges(piece) ==
    UNION { RingEdges(Rings(piece)[k]) : k \in 1..Len(Rings(piece)) }

\* "All vertices of the geometry will be used as the points of the
\* triangulation"
Vertices(piece) == { e[1] : e \in PieceEdges(piece) }

PointKey(q) == q[1] * 16 + q[2]

TriKey(t) == (PointKey(t[1]) * 256 + PointKey(t[2])) * 256 + PointKey(t[3])

\* The triangles a Delaunay triangulation of V can hold: counter-clockwise,
\* no point of V strictly inside the circumcircle; each listed from its least
\* vertex
DelaunayCandidates(V) ==
    { t \in V \X V \X V :
        /\ PointKey(t[1]) < PointKey(t[2])
        /\ PointKey(t[1]) < PointKey(t[3])
        /\ Orient(t[1], t[2], t[3]) > 0
        /\ \A d \in V \ {t[1], t[2], t[3]} : InCircle(t[1], t[2], t[3], d) <= 0 }

TriEdges(t) == { << t[1], t[2] >>, << t[2], t[3] >>, << t[3], t[1] >> }

\* Some edge of t has all of u on its outer side
Separates(t, u) ==
    \E e \in TriEdges(t) : \A k \in 1..3 : Orient(e[1], e[2], u[k]) <= 0

Overlap(t, u) == ~ Separates(t, u) /\ ~ Separates(u, t)

\* T covers the convex hull of V: every edge of it is shared with another
\* triangle of T or lies on the hull
CoversHull(T, V) ==
    /\ T # {}
    /\ \A t \in T : \A e \in TriEdges(t) :
          \/ \A q \in V : Orient(e[1], e[2], q) >= 0
          \/ \E u \in T : << e[2], e[1] >> \in TriEdges(u)

RECURSIVE TriangulationsFrom(_, _, _)
TriangulationsFrom(C, chosen, V) ==
    IF C = {} THEN (IF CoversHull(chosen, V) THEN {chosen} ELSE {})
    ELSE LET t == CHOOSE x \in C : TRUE
         IN  (IF \A u \in chosen : ~ Overlap(t, u)
              THEN TriangulationsFrom(C \ {t}, chosen \cup {t}, V) ELSE {})
             \cup TriangulationsFrom(C \ {t}, chosen, V)

RECURSIVE SortTris(_)
SortTris(T) ==
    IF T = {} THEN <<>>
    ELSE LET m == CHOOSE x \in T : \A y \in T : TriKey(x) <= TriKey(y)
         IN  << m >> \o SortTris(T \ {m})

\* shapely.ops.triangulate(piece): the Delaunay triangulation of the piece's
\* vertices (not constrained to its rings), as a list of counter-clockwise
\* triangles; co-circular vertices leave the library a choice, so this is
\* the set of lists it may return
triangulate(piece) ==
    { SortTris(T) :
        T \in TriangulationsFrom(DelaunayCandidates(Vertices(piece)), {},
                                 Vertices(piece)) }

Scale3(q) == << 3 * q[1], 3 * q[2] >>

OnSegment(a, b, q) ==
    /\ Orient(a, b, q) = 0
    /\ (a[1] <= q[1] /\ q[1] <= b[1]) \/ (b[1] <= q[1] /\ q[1] <= a[1])
    /\ (a[2] <= q[2] /\ q[2] <= b[2]) \/ (b[2] <= q[2] /\ q[2] <= a[2])

\* The ray from q towards +x crosses the edge a -> b
RayCrosses(a, b, q) ==
    /\ (a[2] > q[2]) # (b[2] > q[2])
    /\ IF b[2] > a[2] THEN Orient(a, b, q) > 0 ELSE Orient(a, b, q) < 0

\* piece.contains(tri.centroid): the centroid lies in the interior of the
\* piece (not in a hole, not on a ring); computed on coordinates times 3
ContainsCentroid(piece, tri) ==
    LET q == << tri[1][1] + tri[2][1] + tri[3][1],
                tri[1][2] + tri[2][2] + tri[3][2] >>
        E == { << Scale3(e[1]), Scale3(e[2]) >> : e \in PieceEdges(piece) }
    IN  /\ \A e \in E : ~ OnSegment(e[1], e[2], q)
        /\ Cardinality({ e \in E : RayCrosses(e[1], e[2], q) }) % 2 = 1

(***************************************************************************)
(* The extruder: the triangles PuzzleProcessor.run / process_puzzle append *)
(***************************************************************************)
At(q, z) == << q[1], q[2], z >>

\* Caps with the bottom triangle in the top triangle's vertex order
CapTrianglesSameWinding(tri, T) ==
    << << At(tri[1], T), At(tri[2], T), At(tri[3], T) >>,
       << At(tri[1], 0), At(tri[2], 0), At(tri[3], 0) >> >>

\* Only the top triangle
CapTrianglesTopOnly(tri, T) ==
    << << At(tri[1], T), At(tri[2], T), At(tri[3], T) >> >>

\* "Top face" then "Bottom face" of one triangulation triangle
CapTriangles(tri, T) ==
    << << At(tri[1], T), At(tri[2], T), At(tri[3], T) >>,
       << At(tri[1], 0), At(tri[3], 0), At(tri[2], 0) >> >>

\* Walls split along the other diagonal
WallTrianglesOtherDiagonal(p1, p2, T) ==
    << << At(p1, 0), At(p2, 0), At(p1, T) >>,
       << At(p2, 0), At(p2, T), At(p1, T) >> >>

\* "Triangle 1" (v1, v2, v3) then "Triangle 2" (v1, v3, v4) of one edge
WallTriangles(p1, p2, T) ==
    << << At(p1, 0), At(p2, 0), At(p2, T) >>,
       << At(p1, 0), At(p2, T), At(p1, T) >> >>


(***************************************************************************)
(* One run of the pipeline: PuzzleProcessor.run (entry = "run") and the    *)
(* script's process_puzzle (entry = "process_puzzle"), statement by        *)
(* statement.  What the libraries return (svg2paths, unary_union,          *)
(* polygonize, buffer, triangulate) is an input of the run.                *)
(***************************************************************************)
MaxFaces == 2

Polygon(ext, holes) == [exterior |-> ext, interiors |-> holes, raises |-> FALSE]

\* The unit square, counter-clockwise
Square == Polygon(<< <<0, 0>>, <<1, 0>>, <<1, 1>>, <<0, 1>>, <<0, 0>> >>, <<>>)

\* A unit square, clockwise
SquareCW == Polygon(<< <<2, 0>>, <<2, 1>>, <<3, 1>>, <<3, 0>>, <<2, 0>> >>, <<>>)

\* An S-shaped piece, counter-clockwise
SPiece ==
    Polygon(<< <<0, 0>>, <<5, 0>>, <<5, 4>>, <<2, 4>>, <<2, 3>>, <<4, 3>>,
               <<4, 2>>, <<0, 2>>, <<0, 0>> >>, <<>>)

\* A 4 x 4 square (counter-clockwise) with a unit hole (clockwise)
RingPiece ==
    Polygon(<< <<0, 0>>, <<4, 0>>, <<4, 4>>, <<0, 4>>, <<0, 0>> >>,
            << << <<1, 1>>, <<1, 2>>, <<2, 2>>, <<2, 1>>, <<1, 1>> >> >>)

\* A piece on which triangulate raises
BadPiece ==
    [exterior |-> << <<6, 0>>, <<7, 0>>, <<7, 1>>, <<6, 0>> >>,
     interiors |-> <<>>, raises |-> TRUE]

\* What poly.buffer(tolerance) makes of a face: nothing (is_empty), one
\* Polygon, or the geoms of a MultiPolygon
Faces ==
    { <<>>, << Square >>, << SquareCW >>, << SPiece >>, << RingPiece >>,
      << BadPiece, SquareCW >> }

\* Paths as svg2paths returns them: none; one whose only segment is shorter
\* than 1e-5; one that rounding collapses to a point; one of two sampled
\* segments
RunPathLists ==
    { <<>>,
      << << Line(<<20000, 0>>, <<20000, 5>>) >> >>,
      << << Line(<<20000, 0>>, <<20000, 20>>) >> >>,
      << << Line(<<0, 0>>, <<20000, 0>>), Line(<<20000, 0>>, <<20000, 12345>>) >> >> }

Thicknesses == {1, 3}

\* The pieces of the faces above, and what triangulate may return for each
Pieces == UNION { { f[k] : k \in 1..Len(f) } : f \in Faces }

Triangulations == [p \in Pieces |-> triangulate(p)]

RECURSIVE PathLoop(_, _, _, _, _, _)
\* "for segment in path: ..." from segment i on, then "Flush path end"
PathLoop(pth, i, cp, ls, d, extend) ==
    IF i > Len(pth) THEN PathEnd(cp, ls, extend)
    ELSE LET r == SegmentStep(cp, ls, pth[i], d, extend)
         IN  PathLoop(pth, i + 1, r.cp, r.ls, d, extend)


Init ==
    /\ entry \in {"run", "process_puzzle"}
    /\ pc = "exists"
    /\ input_kind \in {"missing", "malformed", "svg"}
    /\ paths \in (IF input_kind = "svg" THEN RunPathLists ELSE {<<>>})
    /\ thickness \in Thicknesses
    /\ density = 5000
    /\ lines = <<>>
    /\ path_i = 1 /\ noded_empty = FALSE /\ polygons = <<>>
    /\ face_i = 1 /\ target_polys = <<>> /\ piece_i = 1 /\ mesh = <<>>
    /\ tri_i = 1 /\ ring_i = 1 /\ edge_j = 1 /\ piece_base = 0
    /\ all_triangles = <<>> /\ out_file = <<>> /\ writes = 0
    /\ printed = {} /\ outcome = "running"
    /\ path = <<>> /\ seg_i = 1 /\ current_points = <<>> /\ disc_pc = "idle"
    /\ StlIdle /\ ExtIdle /\ SvcIdle

\* A failure that process_puzzle reports by print and return
AbortPrinting ==
    /\ pc' = "done"
    /\ outcome' = "returned"
    /\ printed' = printed \cup {"error"}

\* A failure that PuzzleProcessor.run reports by raise
AbortRaising(exc) ==
    /\ pc' = "done"
    /\ outcome' = exc
    /\ printed' = printed

\* How the entry point at hand gives up
Abort(exc) == IF entry = "run" THEN AbortRaising(exc) ELSE AbortPrinting

otherVars == <<stlVars, extVars, path, seg_i, current_points, disc_pc,
               svcVars>>

\* if not os.path.exists(svg_path): ...
CheckInput ==
    /\ pc = "exists"
    /\ IF input_kind = "missing"
       THEN Abort("FileNotFoundError")
       ELSE pc' = "parse" /\ UNCHANGED <<outcome, printed>>
    /\ UNCHANGED <<entry, input_kind, paths, path_i, thickness, noded_empty,
                   polygons, face_i, target_polys, piece_i, mesh, tri_i,
                   ring_i, edge_j, piece_base, all_triangles, out_file,
                   writes, lines, density, otherVars>>

\* paths, _ = svg2paths(svg_path), inside try/except
ParseSvg ==
    /\ pc = "parse"
    /\ IF input_kind = "malformed"
       THEN Abort("ValueError")
       ELSE pc' = "discretize" /\ UNCHANGED <<outcome, printed>>
    /\ UNCHANGED <<entry, input_kind, paths, path_i, thickness, noded_empty,
                   polygons, face_i, target_polys, piece_i, mesh, tri_i,
                   ring_i, edge_j, piece_base, all_triangles, out_file,
                   writes, lines, density, otherVars>>

\* One iteration of "for path in paths"
DiscretizePath ==
    /\ pc = "discretize"
    /\ path_i <= Len(paths)
    /\ lines' = PathLoop(paths[path_i], 1, <<>>, lines, density, TRUE)
    /\ path_i' = path_i + 1
    /\ UNCHANGED <<entry, pc, input_kind, paths, thickness, noded_empty,
                   polygons, face_i, target_polys, piece_i, mesh, tri_i,
                   ring_i, edge_j, piece_base, all_triangles, out_file,
                   writes, printed, outcome, density, otherVars>>

\* Every point of the polyline is the same point
Collapsed(pl) == \A k \in 1..Len(pl) : pl[k] = pl[1]

\* unary_union(lines).is_empty: true of no lines, false once a line has
\* length; for lines that are all single points it is the library's call
MayBeEmpty ==
    IF lines = <<>> THEN {TRUE}
    ELSE IF \A k \in 1..Len(lines) : Collapsed(lines[k]) THEN {TRUE, FALSE}
    ELSE {FALSE}

\* noded_lines = unary_union(lines); if noded_lines.is_empty: ...
Noding ==
    /\ pc = "discretize"
    /\ path_i > Len(paths)
    /\ \E e \in MayBeEmpty :
          /\ noded_empty' = e
          /\ IF e THEN Abort("ValueError")
             ELSE pc' = "polygonize" /\ UNCHANGED <<outcome, printed>>
    /\ UNCHANGED <<entry, input_kind, paths, path_i, thickness,
                   polygons, face_i, target_polys, piece_i, mesh, tri_i,
                   ring_i, edge_j, piece_base, all_triangles, out_file,
                   writes, lines, density, otherVars>>

\* polygons = list(polygonize(noded_lines)); if len(polygons) <= 1: warn
\* (and, in process_puzzle, return); all_triangles = []
Polygonize ==
    /\ pc = "polygonize"
    /\ \E ps \in SeqsUpTo(Faces, MaxFaces) :
          /\ polygons' = ps
          /\ printed' = IF Len(ps) <= 1 THEN printed \cup {"warning"}
                        ELSE printed
          /\ IF Len(ps) <= 1 /\ entry = "process_puzzle"
             THEN pc' = "done" /\ outcome' = "returned"
             ELSE pc' = "face" /\ outcome' = outcome
    /\ face_i' = 1
    /\ all_triangles' = <<>>
    /\ UNCHANGED <<entry, input_kind, paths, path_i, thickness, noded_empty,
                   target_polys, piece_i, mesh, tri_i, ring_i, edge_j,
                   piece_base, out_file, writes, lines, density, otherVars>>

\* One iteration of "for i, poly in enumerate(polygons)" up to the piece
\* loop: shrunk_poly = poly.buffer(tolerance); an empty one is skipped
NextFace ==
    /\ pc = "face"
    /\ face_i <= Len(polygons)
    /\ IF polygons[face_i] = <<>>
       THEN /\ face_i' = face_i + 1
            /\ UNCHANGED <<pc, target_polys, piece_i>>
       ELSE /\ target_polys' = polygons[face_i]
            /\ piece_i' = 1
            /\ pc' = "piece"
            /\ UNCHANGED face_i
    /\ UNCHANGED <<entry, input_kind, paths, path_i, thickness, noded_empty,
                   polygons, mesh, tri_i, ring_i, edge_j, piece_base,
                   all_triangles, out_file, writes, printed, outcome, lines,
                   density, otherVars>>

\* As NextPiece, but a piece on which triangulate raises ends the face's
\* piece loop (break in place of continue)
NextPieceBreak ==
    /\ pc = "piece"
    /\ piece_i <= Len(target_polys)
    /\ IF target_polys[piece_i].raises
       THEN /\ piece_i' = Len(target_polys) + 1
            /\ printed' = printed \cup {"triangulation failed"}
            /\ UNCHANGED <<pc, mesh, tri_i, piece_base>>
       ELSE /\ mesh' \in Triangulations[target_polys[piece_i]]
            /\ tri_i' = 1
            /\ piece_base' = Len(all_triangles)
            /\ pc' = "caps"
            /\ UNCHANGED <<piece_i, printed>>
    /\ UNCHANGED <<entry, input_kind, paths, path_i, thickness, noded_empty,
                   polygons, face_i, target_polys, ring_i, edge_j,
                   all_triangles, out_file, writes, outcome, lines, density,
                   otherVars>>

\* "for piece in target_polys": mesh = triangulate(piece) inside try/except;
\* a piece on which it raises is skipped by continue
NextPiece ==
    /\ pc = "piece"
    /\ piece_i <= Len(target_polys)
    /\ IF target_polys[piece_i].raises
       THEN /\ piece_i' = piece_i + 1
            /\ printed' = printed \cup {"triangulation failed"}
            /\ UNCHANGED <<pc, mesh, tri_i, piece_base>>
       ELSE /\ mesh' \in Triangulations[target_polys[piece_i]]
            /\ tri_i' = 1
            /\ piece_base' = Len(all_triangles)
            /\ pc' = "caps"
            /\ UNCHANGED <<piece_i, printed>>
    /\ UNCHANGED <<entry, input_kind, paths, path_i, thickness, noded_empty,
                   polygons, face_i, target_polys, ring_i, edge_j,
                   all_triangles, out_file, writes, outcome, lines, density,
                   otherVars>>

\* The pieces of the face are done: on to the next face
FaceDone ==
    /\ pc = "piece"
    /\ piece_i > Len(target_polys)
    /\ face_i' = face_i + 1
    /\ pc' = "face"
    /\ UNCHANGED <<entry, input_kind, paths, path_i, thickness, noded_empty,
                   polygons, target_polys, piece_i, mesh, tri_i, ring_i,
                   edge_j, piece_base, all_triangles, out_file, writes,
                   printed, outcome, lines, density, otherVars>>

\* As CapTriangle, but the caps are put in front of the mesh
CapTrianglePrepend ==
    /\ pc = "caps"
    /\ tri_i <= Len(mesh)
    /\ all_triangles' =
          IF ContainsCentroid(target_polys[piece_i], mesh[tri_i])
          THEN CapTriangles(mesh[tri_i], thickness) \o all_triangles
          ELSE all_triangles
    /\ tri_i' = tri_i + 1
    /\ UNCHANGED <<entry, pc, input_kind, paths, path_i, thickness,
                   noded_empty, polygons, face_i, target_polys, piece_i,
                   mesh, ring_i, edge_j, piece_base, out_file, writes,
                   printed, outcome, lines, density, otherVars>>

\* One iteration of "for tri in mesh"
CapTriangle ==
    /\ pc = "caps"
    /\ tri_i <= Len(mesh)
    /\ all_triangles' =
          IF ContainsCentroid(target_polys[piece_i], mesh[tri_i])
          THEN all_triangles \o CapTriangles(mesh[tri_i], thickness)
          ELSE all_triangles
    /\ tri_i' = tri_i + 1
    /\ UNCHANGED <<entry, pc, input_kind, paths, path_i, thickness,
                   noded_empty, polygons, face_i, target_polys, piece_i,
                   mesh, ring_i, edge_j, piece_base, out_file, writes,
                   printed, outcome, lines, density, otherVars>>

\* "for tri in mesh" is over: boundaries = [piece.exterior] + interiors
CapsDone ==
    /\ pc = "caps"
    /\ tri_i > Len(mesh)
    /\ ring_i' = 1
    /\ edge_j' = 1
    /\ pc' = "walls"
    /\ UNCHANGED <<entry, input_kind, paths, path_i, thickness, noded_empty,
                   polygons, face_i, target_polys, piece_i, mesh, tri_i,
                   piece_base, all_triangles, out_file, writes, printed,
                   outcome, lines, density, otherVars>>

\* One iteration of "for j in range(len(coords) - 1)"
WallEdge ==
    /\ pc = "walls"
    /\ ring_i <= Len(Rings(target_polys[piece_i]))
    /\ LET coords == Rings(target_polys[piece_i])[ring_i]
       IN  /\ edge_j <= Len(coords) - 1
           /\ all_triangles' = all_triangles
                 \o WallTriangles(coords[edge_j], coords[edge_j + 1], thickness)
    /\ edge_j' = edge_j + 1
    /\ UNCHANGED <<entry, pc, input_kind, paths, path_i, thickness,
                   noded_empty, polygons, face_i, target_polys, piece_i,
                   mesh, tri_i, ring_i, piece_base, out_file, writes,
                   printed, outcome, lines, density, otherVars>>

\* The ring's edges are done: on to the next boundary
NextRing ==
    /\ pc = "walls"
    /\ ring_i <= Len(Rings(target_polys[piece_i]))
    /\ edge_j > Len(Rings(target_polys[piece_i])[ring_i]) - 1
    /\ ring_i' = ring_i + 1
    /\ edge_j' = 1
    /\ UNCHANGED <<entry, pc, input_kind, paths, path_i, thickness,
                   noded_empty, polygons, face_i, target_polys, piece_i,
                   mesh, tri_i, piece_base, all_triangles, out_file, writes,
                   printed, outcome, lines, density, otherVars>>

\* The boundaries are done: on to the next piece
PieceDone ==
    /\ pc = "walls"
    /\ ring_i > Len(Rings(target_polys[piece_i]))
    /\ piece_i' = piece_i + 1
    /\ pc' = "piece"
    /\ UNCHANGED <<entry, input_kind, paths, path_i, thickness, noded_empty,
                   polygons, face_i, target_polys, mesh, tri_i, ring_i,
                   edge_j, piece_base, all_triangles, out_file, writes,
                   printed, outcome, lines, density, otherVars>>

\* After the face loop: write_stl(all_triangles, output_path), "Success!"
WriteMesh ==
    /\ pc = "face"
    /\ face_i > Len(polygons)
    /\ out_file' = write_stl(all_triangles)
    /\ writes' = writes + 1
    /\ printed' = printed \cup {"success"}
    /\ outcome' = "success"
    /\ pc' = "done"
    /\ UNCHANGED <<entry, input_kind, paths, path_i, thickness, noded_empty,
                   polygons, face_i, target_polys, piece_i, mesh, tri_i,
                   ring_i, edge_j, piece_base, all_triangles, lines, density,
                   otherVars>>

Next ==
    \/ CheckInput \/ ParseSvg \/ DiscretizePath \/ Noding \/ Polygonize
    \/ NextFace \/ NextPiece \/ FaceDone \/ CapTriangle \/ CapsDone
    \/ WallEdge \/ NextRing \/ PieceDone \/ WriteMesh

Spec == Init /\ [][Next]_vars


(***************************************************************************)
(* Claims about the extruder                                               *)
(***************************************************************************)
\* The piece whose caps and walls are being emitted
Piece == target_polys[piece_i]

\* The triangles appended for it so far
Emitted == SubSeq(all_triangles, piece_base + 1, Len(all_triangles))

\* Its walls are complete: "for boundary in boundaries" has run out
PieceComplete == pc = "walls" /\ ring_i > Len(Rings(Piece))

RECURSIVE RingArea2(_, _)
\* Twice the signed area of the ring from its edge j on (shoelace formula);
\* positive for a counter-clockwise ring
RingArea2(ring, j) ==
    IF j >= Len(ring) THEN 0
    ELSE Cross2(ring[j], ring[j + 1]) + RingArea2(ring, j + 1)

CorrectlyOriented(piece) ==
    /\ RingArea2(piece.exterior, 1) > 0
    /\ \A k \in 1..Len(piece.interiors) : RingArea2(piece.interiors[k], 1) < 0

\* How many triangles of ts run along the directed edge a -> b
Uses(ts, a, b) ==
    Cardinality({ ik \in (1..Len(ts)) \X (1..3) :
                    /\ ts[ik[1]][ik[2]] = a
                    /\ ts[ik[1]][(ik[2] % 3) + 1] = b })

Manifold(ts) ==
    \A i \in 1..Len(ts) : \A k \in 1..3 :
        LET a == ts[i][k]
            b == ts[i][(k % 3) + 1]
        IN  Uses(ts, a, b) = 1 /\ Uses(ts, b, a) = 1

\* C2: for every piece whose rings are correctly oriented, the triangles
\* emitted for it form a watertight, manifold shell: every edge of an emitted
\* triangle is shared by exactly one other emitted triangle of the piece,
\* which runs along it the other way.
C2_Watertight ==
    (PieceComplete /\ CorrectlyOriented(Piece)) => Manifold(Emitted)

Horizontal(t) == t[1][3] = t[2][3] /\ t[2][3] = t[3][3]

NumCaps(ts) == Cardinality({ i \in 1..Len(ts) : Horizontal(ts[i]) })

NumAt(ts, z) ==
    Cardinality({ i \in 1..Len(ts) : Horizontal(ts[i]) /\ ts[i][1][3] = z })

NumWalls(ts) == Cardinality({ i \in 1..Len(ts) : ~ Horizontal(ts[i]) })

\* A unit square: one ring of 4 edges around the corners of a unit cell
UnitSquare(piece) ==
    /\ piece.interiors = <<>>
    /\ Len(piece.exterior) = 5
    /\ \E x \in 0..8, y \in 0..8 :
          Vertices(piece) = { <<x, y>>, <<x + 1, y>>, <<x + 1, y + 1>>, <<x, y + 1>> }

UnitSquareExtruded == PieceComplete /\ UnitSquare(Piece) /\ Len(mesh) = 2

\* C3 as stated: extruding a triangulated unit square appends exactly 2
\* top/bottom triangles and exactly 8 side-wall triangles, 10 in total.
C3_AsStated ==
    UnitSquareExtruded =>
        /\ NumCaps(Emitted) = 2
        /\ NumWalls(Emitted) = 8
        /\ Len(Emitted) = 10

\* C3 amended: it appends 2 top triangles and 2 bottom triangles (4 cap
\* triangles, one pair per interior triangle) and 8 side-wall triangles,
\* 12 in total.
C3_SquareCounts ==
    UnitSquareExtruded =>
        /\ NumAt(Emitted, thickness) = 2
        /\ NumAt(Emitted, 0) = 2
        /\ NumWalls(Emitted) = 8
        /\ Len(Emitted) = 12

C3_Witness == UnitSquareExtruded /\ Piece = Square /\ Len(Emitted) = 12

\* Which triangles of each triangulation of each piece the piece contains
Contained ==
    [p \in Pieces |->
        [m \in Triangulations[p] |->
            [k \in 1..Len(m) |-> ContainsCentroid(p, m[k])]]]

\* The caps due for the first n triangles of mesh
ExpectedCaps(n) ==
    Flatten([k \in 1..n |->
        IF Contained[Piece][mesh][k]
        THEN << << << mesh[k][1][1], mesh[k][1][2], thickness >>,
                   << mesh[k][2][1], mesh[k][2][2], thickness >>,
                   << mesh[k][3][1], mesh[k][3][2], thickness >> >>,
                << << mesh[k][1][1], mesh[k][1][2], 0 >>,
                   << mesh[k][3][1], mesh[k][3][2], 0 >>,
                   << mesh[k][2][1], mesh[k][2][2], 0 >> >> >>
        ELSE <<>>])

\* C4: every triangulation triangle (v1,v2,v3) whose centroid the piece
\* contains appends a top triangle (v1,v2,v3) at z = thickness immediately
\* followed by a bottom triangle (v1,v3,v2) at z = 0; every other triangle
\* appends nothing.  So while the caps are emitted, the piece's triangles
\* are exactly those pairs for the triangles visited.
C4_Caps == pc = "caps" => Emitted = ExpectedCaps(tri_i - 1)

\* All 9 triangles of the S-shaped piece visited: 7 kept, 2 dropped
C4_Witness ==
    /\ pc = "caps"
    /\ Piece = SPiece
    /\ tri_i = 10
    /\ Len(Emitted) = 14

\* The walls due for edges 1 .. n of a ring
ExpectedRingWalls(ring, n) ==
    Flatten([j \in 1..n |->
        << << << ring[j][1], ring[j][2], 0 >>,
              << ring[j + 1][1], ring[j + 1][2], 0 >>,
              << ring[j + 1][1], ring[j + 1][2], thickness >> >>,
           << << ring[j][1], ring[j][2], 0 >>,
              << ring[j + 1][1], ring[j + 1][2], thickness >>,
              << ring[j][1], ring[j][2], thickness >> >> >>])

\* The walls due when rings 1 .. r-1 are done and ring r has come to edge j
ExpectedWalls(r, j) ==
    Flatten([k \in 1..(r - 1) |->
               ExpectedRingWalls(Rings(Piece)[k], Len(Rings(Piece)[k]) - 1)])
      \o (IF r <= Len(Rings(Piece))
          THEN ExpectedRingWalls(Rings(Piece)[r], j - 1) ELSE <<>>)

NumEdges(piece) == Cardinality(PieceEdges(piece))

\* C5: for every ring of a piece, exterior first, and every consecutive
\* coordinate pair (p1,p2) of it, in order, the run appends
\* (p1@0, p2@0, p2@thickness) then (p1@0, p2@thickness, p1@thickness); a
\* piece with E edges gets exactly 2*E wall triangles.
C5_Walls ==
    pc = "walls" =>
        LET caps  == ExpectedCaps(Len(mesh))
            walls == SubSeq(Emitted, Len(caps) + 1, Len(Emitted))
        IN  /\ walls = ExpectedWalls(ring_i, edge_j)
            /\ PieceComplete => Len(walls) = 2 * NumEdges(Piece)

C5_Witness ==
    /\ PieceComplete
    /\ Piece = RingPiece
    /\ Len(Emitted) = 16 + 16

(***************************************************************************)
(* Claims about the run's failures                                         *)
(***************************************************************************)
PipelineFailure ==
    \/ input_kind = "missing"
    \/ input_kind = "malformed"
    \/ noded_empty

\* C10: a pipeline-level failure (no input file, unparsable input, empty
\* noded geometry) ends the run with a typed error raised to the caller, and
\* no mesh file is written.
C10_TypedError ==
    (pc = "done" /\ PipelineFailure) =>
        /\ outcome \in {"FileNotFoundError", "ValueError"}
        /\ writes = 0
        /\ out_file = <<>>

\* C11: when polygonization yields 0 or 1 face, the run reports a warning
\* and carries on: it still goes through the faces found and still writes
\* the mesh file, whichever entry point runs.
C11_WarnAndContinue ==
    /\ (pc \in {"face", "piece", "caps", "walls"} /\ Len(polygons) <= 1)
          => "warning" \in printed
    /\ (pc = "done" /\ "warning" \in printed) =>
          /\ face_i > Len(polygons)
          /\ writes = 1
          /\ outcome = "success"

\* C12: a run that ends with zero triangles in the mesh is never reported
\* as a success.
C12_EmptyMeshNotSuccess ==
    (pc = "done" /\ all_triangles = <<>>) =>
        /\ outcome # "success"
        /\ "success" \notin printed

(***************************************************************************)
(* Claims about the face loop                                              *)
(***************************************************************************)
\* The shell of a piece under the triangulation m: a top and a bottom cap
\* per triangle of m the piece contains, then two wall triangles per ring
\* edge
ShellOf(p, m, T) ==
    Flatten([k \in 1..Len(m) |->
        IF ContainsCentroid(p, m[k])
        THEN << << << m[k][1][1], m[k][1][2], T >>,
                   << m[k][2][1], m[k][2][2], T >>,
                   << m[k][3][1], m[k][3][2], T >> >>,
                << << m[k][1][1], m[k][1][2], 0 >>,
                   << m[k][3][1], m[k][3][2], 0 >>,
                   << m[k][2][1], m[k][2][2], 0 >> >> >>
        ELSE <<>>])
    \o Flatten([r \in 1..Len(Rings(p)) |->
          Flatten([j \in 1..(Len(Rings(p)[r]) - 1) |->
            LET ring == Rings(p)[r]
            IN  << << << ring[j][1], ring[j][2], 0 >>,
                      << ring[j + 1][1], ring[j + 1][2], 0 >>,
                      << ring[j + 1][1], ring[j + 1][2], T >> >>,
                   << << ring[j][1], ring[j][2], 0 >>,
                      << ring[j + 1][1], ring[j + 1][2], T >>,
                      << ring[j][1], ring[j][2], T >> >> >>])])

\* The shells a piece may get: none if its triangulation fails
ShellsOf ==
    [p \in Pieces, T \in Thicknesses |->
        IF p.raises THEN { <<>> }
        ELSE { ShellOf(p, m, T) : m \in Triangulations[p] }]

RECURSIVE MeshesOf(_, _)
\* The meshes of a list of pieces: the pieces' shells, in order
MeshesOf(ps, T) ==
    IF ps = <<>> THEN { <<>> }
    ELSE { a \o b : a \in ShellsOf[Head(ps), T], b \in MeshesOf(Tail(ps), T) }

\* A face gone through whose offset was empty or one of whose pieces could
\* not be triangulated
FaceFailed ==
    \E k \in 1..Len(polygons) :
        /\ k < face_i
        /\ \/ polygons[k] = <<>>
           \/ \E n \in 1..Len(polygons[k]) : polygons[k][n].raises

\* C13: per-face failures are isolated.  A face whose offset is empty and a
\* piece whose triangulation fails add no triangle; the mesh written is the
\* shells of all the other pieces, in order, as if the failed ones had not
\* been there; and a run in which a face failed still ends by writing the
\* mesh.
C13_Isolation ==
    /\ (pc = "done" /\ outcome = "success") =>
          all_triangles \in MeshesOf(Flatten(polygons), thickness)
    /\ (pc = "done" /\ FaceFailed) =>
          /\ outcome = "success"
          /\ writes = 1
          /\ out_file = write_stl(all_triangles)

C13_Witness ==
    /\ pc = "done"
    /\ polygons = << <<>>, << BadPiece, SquareCW >> >>
    /\ Len(all_triangles) = 12
    /\ writes = 1

IsPrefix(s, t) == Len(s) <= Len(t) /\ SubSeq(t, 1, Len(s)) = s

\* C14: within one run the mesh only grows by appending, and only while a
\* face is being gone through, the faces being taken in the polygonizer's
\* order; write_stl is called at most once, after the last face, with the
\* complete list, which does not change afterwards.
C14_AppendOnly ==
    [][ /\ IsPrefix(all_triangles, all_triangles')
        /\ face_i' >= face_i
        /\ all_triangles' # all_triangles =>
              /\ pc \in {"caps", "walls"}
              /\ face_i <= Len(polygons)
              /\ face_i' = face_i
        /\ writes' # writes =>
              /\ writes = 0 /\ writes' = 1
              /\ face_i > Len(polygons)
              /\ all_triangles' = all_triangles
              /\ out_file' = write_stl(all_triangles)
        /\ writes = 1 => all_triangles' = all_triangles /\ out_file' = out_file
      ]_vars

C14_Witness ==
    /\ pc = "done"
    /\ writes = 1
    /\ polygons = << << Square >>, << RingPiece >> >>
    /\ Len(all_triangles) = 12 + 32

(***************************************************************************)
(* The desktop UI (ui.py): the Tk main loop runs its handlers one at a    *)
(* time (_start_generation, _drain_log_queue, _on_close); each generation *)
(* has a worker thread in _run_process, whose statements interleave with  *)
(* the handlers and with the other workers.  The subprocess is an input:  *)
(* how many lines it prints, when it exits and with which code.           *)
(***************************************************************************)
\* The lines one generator subprocess prints at most
MaxLogLines == 1

UiInit ==
    /\ ui_process = 0
    /\ ui_button = "normal"
    /\ ui_queue = <<>>
    /\ ui_log = <<>>
    /\ ui_alive = {}
    /\ ui_left = [r \in Runs |-> 0]
    /\ ui_rc = [r \in Runs |-> -1]
    /\ ui_worker = [r \in Runs |-> "none"]
    /\ ui_started = 0
    /\ ui_close = "open"
    /\ StlIdle /\ ExtIdle /\ DiscIdle /\ RunIdle /\ HttpIdle

uiOther == <<stlVars, extVars, discVars, runVars, httpVars>>

\* _start_generation with valid inputs, on a click of the enabled button
\* (invalid inputs return before anything changes): the button is disabled
\* and the worker thread started
StartGeneration ==
    /\ ui_close = "open"
    /\ ui_button = "normal"
    /\ ui_started < MaxRuns
    /\ ui_button' = "disabled"
    /\ ui_started' = ui_started + 1
    /\ ui_worker' = [ui_worker EXCEPT ![ui_started + 1] = "popen"]
    /\ UNCHANGED <<ui_process, ui_queue, ui_log, ui_alive, ui_left, ui_rc,
                   ui_close, uiOther>>

\* self.process = subprocess.Popen(...): the subprocess runs and
\* self.process refers to it
Popen(r) ==
    /\ ui_close # "closed"
    /\ ui_worker[r] = "popen"
    /\ ui_process' = r
    /\ ui_alive' = ui_alive \cup {r}
    /\ \E n \in 0..MaxLogLines : ui_left' = [ui_left EXCEPT ![r] = n]
    /\ ui_worker' = [ui_worker EXCEPT ![r] = "read"]
    /\ UNCHANGED <<ui_button, ui_queue, ui_log, ui_rc, ui_started, ui_close,
                   uiOther>>

\* Popen raises: except puts the error message, self.process is not stored
PopenRaises(r) ==
    /\ ui_close # "closed"
    /\ ui_worker[r] = "popen"
    /\ ui_queue' = Append(ui_queue, <<"error", r>>)
    /\ ui_worker' = [ui_worker EXCEPT ![r] = "sentinel"]
    /\ UNCHANGED <<ui_process, ui_button, ui_log, ui_alive, ui_left, ui_rc,
                   ui_started, ui_close, uiOther>>

\* One iteration of "for line in self.process.stdout"
ReadLine(r) ==
    /\ ui_close # "closed"
    /\ ui_worker[r] = "read"
    /\ ui_left[r] > 0
    /\ ui_left' = [ui_left EXCEPT ![r] = ui_left[r] - 1]
    /\ ui_queue' = Append(ui_queue, <<"line", r>>)
    /\ UNCHANGED <<ui_process, ui_button, ui_log, ui_alive, ui_rc, ui_worker,
                   ui_started, ui_close, uiOther>>

\* The loop ends at end of file, which the exit of the subprocess brings
ReadEof(r) ==
    /\ ui_close # "closed"
    /\ ui_worker[r] = "read"
    /\ ui_left[r] = 0
    /\ r \notin ui_alive
    /\ ui_worker' = [ui_worker EXCEPT ![r] = "wait"]
    /\ UNCHANGED <<ui_process, ui_button, ui_queue, ui_log, ui_alive, ui_left,
                   ui_rc, ui_started, ui_close, uiOther>>

\* Reading the output raises (a line that does not decode, say): except
\* puts the error message; the subprocess is not waited for
ReadRaises(r) ==
    /\ ui_close # "closed"
    /\ ui_worker[r] = "read"
    /\ ui_queue' = Append(ui_queue, <<"error", r>>)
    /\ ui_worker' = [ui_worker EXCEPT ![r] = "sentinel"]
    /\ UNCHANGED <<ui_process, ui_button, ui_log, ui_alive, ui_left, ui_rc,
                   ui_started, ui_close, uiOther>>

\* return_code = self.process.wait(), then the message for it.  The call
\* is on what self.process refers to by then: on None it raises and except
\* puts the error message
Wait(r) ==
    /\ ui_close # "closed"
    /\ ui_worker[r] = "wait"
    /\ ui_process \notin ui_alive
    /\ ui_queue' = Append(ui_queue,
                          << IF ui_process = 0 THEN "error"
                             ELSE IF ui_rc[ui_process] = 0 THEN "completed"
                             ELSE "failed", r >>)
    /\ ui_worker' = [ui_worker EXCEPT ![r] = "sentinel"]
    /\ UNCHANGED <<ui_process, ui_button, ui_log, ui_alive, ui_left, ui_rc,
                   ui_started, ui_close, uiOther>>

\* finally, first statement: self.log_queue.put("__PROCESS_FINISHED__")
PutSentinel(r) ==
    /\ ui_close # "closed"
    /\ ui_worker[r] = "sentinel"
    /\ ui_queue' = Append(ui_queue, <<"fin", r>>)
    /\ ui_worker' = [ui_worker EXCEPT ![r] = "clear"]
    /\ UNCHANGED <<ui_process, ui_button, ui_log, ui_alive, ui_left, ui_rc,
                   ui_started, ui_close, uiOther>>

\* finally, second statement: self.process = None
ClearProcess(r) ==
    /\ ui_close # "closed"
    /\ ui_worker[r] = "clear"
    /\ ui_process' = 0
    /\ ui_worker' = [ui_worker EXCEPT ![r] = "done"]
    /\ UNCHANGED <<ui_button, ui_queue, ui_log, ui_alive, ui_left, ui_rc,
                   ui_started, ui_close, uiOther>>

\* The subprocess exits by itself, with code 0 or not
ProcExit(r) ==
    /\ ui_close # "closed"
    /\ r \in ui_alive
    /\ ui_alive' = ui_alive \ {r}
    /\ \E code \in {0, 1} : ui_rc' = [ui_rc EXCEPT ![r] = code]
    /\ UNCHANGED <<ui_process, ui_button, ui_queue, ui_log, ui_left,
                   ui_worker, ui_started, ui_close, uiOther>>

\* _drain_log_queue: every item now in the queue is taken; the sentinel
\* enables the button, anything else is appended to the log
DrainLogQueue ==
    /\ ui_close \in {"open", "asking"}
    /\ ui_queue # <<>>
    /\ ui_log' = ui_log \o SelectSeq(ui_queue, LAMBDA it : it[1] # "fin")
    /\ ui_button' = IF \E k \in 1..Len(ui_queue) : ui_queue[k][1] = "fin"
                    THEN "normal" ELSE ui_button
    /\ ui_queue' = <<>>
    /\ UNCHANGED <<ui_process, ui_alive, ui_left, ui_rc, ui_worker,
                   ui_started, ui_close, uiOther>>

\* _on_close up to askyesno: with no process, or one that has exited, the
\* window is destroyed at once
OnClose ==
    /\ ui_close = "open"
    /\ ui_close' = IF ui_process # 0 /\ ui_process \in ui_alive
                   THEN "asking" ELSE "closed"
    /\ UNCHANGED <<ui_process, ui_button, ui_queue, ui_log, ui_alive, ui_left,
                   ui_rc, ui_worker, ui_started, uiOther>>

\* The answer to askyesno: no returns; yes calls self.process.terminate()
\* on what self.process is by then (on None the call raises and the window
\* stays) and destroys the window
OnCloseAnswer ==
    /\ ui_close = "asking"
    /\ \E yes \in BOOLEAN :
          IF ~ yes \/ ui_process = 0
          THEN ui_close' = "open" /\ UNCHANGED <<ui_alive, ui_rc>>
          ELSE /\ ui_close' = "closed"
               /\ ui_alive' = ui_alive \ {ui_process}
               /\ ui_rc' = IF ui_process \in ui_alive
                           THEN [ui_rc EXCEPT ![ui_process] = 1] ELSE ui_rc
    /\ UNCHANGED <<ui_process, ui_button, ui_queue, ui_log, ui_left,
                   ui_worker, ui_started, uiOther>>

UiNext ==
    \/ StartGeneration \/ DrainLogQueue \/ OnClose \/ OnCloseAnswer
    \/ \E r \in Runs :
          \/ Popen(r) \/ PopenRaises(r) \/ ReadLine(r) \/ ReadEof(r)
          \/ ReadRaises(r) \/ Wait(r) \/ PutSentinel(r) \/ ClearProcess(r)
          \/ ProcExit(r)

SpecUi == UiInit /\ [][UiNext]_vars

(***************************************************************************)
(* Claims about the desktop UI                                             *)
(***************************************************************************)
\* C15: self.process refers to the running subprocess: the worker that
\* sets self.process to None at its end never does so when a later run has
\* stored its own subprocess there, under any interleaving of the workers
\* with the main loop.
C15_ProcessTracked ==
    [][ \A r \in Runs :
          (ui_worker[r] = "clear" /\ ui_worker'[r] = "done") =>
              ui_process \in {0, r} ]_vars

\* The sentinel of run r has been put on the queue
SentinelPut(r) == ui_worker[r] \in {"clear", "done"}

\* ... and taken from it by _drain_log_queue
SentinelDrained(r) ==
    /\ SentinelPut(r)
    /\ \A k \in 1..Len(ui_queue) : ui_queue[k] # <<"fin", r>>

\* C16: at most one generator subprocess is alive at any time: the button
\* is disabled from _start_generation until the sentinel is drained, and on
\* every path through _run_process the sentinel is put only after the run's
\* subprocess has exited and after all of its log lines.
C16_OneSubprocess ==
    /\ Cardinality(ui_alive) <= 1
    /\ ui_button = "normal" => \A r \in 1..ui_started : SentinelDrained(r)
    /\ \A r \in Runs : SentinelPut(r) =>
          /\ r \notin ui_alive
          /\ SentinelDrained(r) =>
                \A k \in 1..Len(ui_queue) : ui_queue[k] # <<"line", r>>
          /\ \A k, n \in 1..Len(ui_queue) :
                (ui_queue[k] = <<"fin", r>> /\ ui_queue[n] = <<"line", r>>)
                    => n < k

(***************************************************************************)
(* The HTTP service (app.py): one POST /generate, statement by statement. *)
(* The request and what generate_stl_from_svg does to the output file are *)
(* inputs.                                                                 *)
(***************************************************************************)
\* A form field: a number, or text float() rejects
Field(isnum, v) == [numeric |-> isnum, value |-> v]

Requests ==
    [ filename  : {"", "piece.txt", "piece.svg", "PIECE.SVG"},
      thickness : {Field(FALSE, 0), Field(TRUE, -1), Field(TRUE, 0), Field(TRUE, 3)},
      tolerance : {Field(FALSE, 0), Field(TRUE, 0)},
      density   : {Field(FALSE, 0), Field(TRUE, 0), Field(TRUE, 1)} ]

\* upload.filename.lower().endswith(".svg")
IsSvgName(name) == name \in {"piece.svg", "PIECE.SVG"}

\* The request passes every check of the handler's first part
Valid(req) ==
    /\ req.filename # ""
    /\ IsSvgName(req.filename)
    /\ req.thickness.numeric /\ req.tolerance.numeric /\ req.density.numeric
    /\ req.thickness.value > 0
    /\ req.density.value > 0

HttpInit ==
    /\ http_pc = "validate"
    /\ http_req \in Requests
    /\ http_files = {}
    /\ http_size = 0
    /\ http_created = FALSE
    /\ http_cleanup = FALSE
    /\ http_status = 0
    /\ StlIdle /\ ExtIdle /\ DiscIdle /\ RunIdle /\ UiIdle

httpOther == <<stlVars, extVars, discVars, runVars, uiVars>>

\* The checks on the upload and the form: each failure answers 400
Validate ==
    /\ http_pc = "validate"
    /\ IF Valid(http_req)
       THEN http_pc' = "temps" /\ UNCHANGED http_status
       ELSE http_pc' = "done" /\ http_status' = 400
    /\ UNCHANGED <<http_req, http_files, http_size, http_created,
                   http_cleanup, httpOther>>

\* The two NamedTemporaryFile(delete=False) calls and their close()
CreateTemps ==
    /\ http_pc = "temps"
    /\ http_files' = {"svg", "stl"}
    /\ http_size' = 0
    /\ http_created' = TRUE
    /\ http_pc' = "save"
    /\ UNCHANGED <<http_req, http_cleanup, http_status, httpOther>>

\* except Exception: both files are removed, the answer is 500; a cleanup
\* registered before still runs after the request
Except ==
    /\ http_files' = {}
    /\ http_status' = 500
    /\ http_pc' = IF http_cleanup THEN "after" ELSE "done"

\* upload.save(input_path)
SaveUpload ==
    /\ http_pc = "save"
    /\ \E ok \in BOOLEAN :
          IF ok
          THEN http_pc' = "generate" /\ UNCHANGED <<http_files, http_status>>
          ELSE Except
    /\ UNCHANGED <<http_req, http_size, http_created, http_cleanup, httpOther>>

\* generate_stl_from_svg(...): it raises, or returns having left the output
\* file as it was (empty), removed it, or written a mesh of n triangles
GenerateCall ==
    /\ http_pc = "generate"
    /\ \/ Except /\ UNCHANGED http_size
       \/ /\ http_pc' = "check"
          /\ UNCHANGED <<http_files, http_size, http_status>>
       \/ /\ http_pc' = "check"
          /\ http_files' = http_files \ {"stl"}
          /\ UNCHANGED <<http_size, http_status>>
       \/ /\ http_pc' = "check"
          /\ \E n \in 0..MaxTris : http_size' = 84 + 50 * n
          /\ UNCHANGED <<http_files, http_status>>
    /\ UNCHANGED <<http_req, http_created, http_cleanup, httpOther>>

\* if not os.path.exists(output_path) or os.path.getsize(output_path) == 0:
\* answer 400; otherwise register cleanup with after_this_request
CheckOutput ==
    /\ http_pc = "check"
    /\ IF "stl" \notin http_files \/ http_size = 0
       THEN /\ http_status' = 400
            /\ http_pc' = "done"
            /\ UNCHANGED http_cleanup
       ELSE /\ http_cleanup' = TRUE
            /\ http_pc' = "send"
            /\ UNCHANGED http_status
    /\ UNCHANGED <<http_req, http_files, http_size, http_created, httpOther>>

\* return send_file(...)
SendFile ==
    /\ http_pc = "send"
    /\ \E ok \in BOOLEAN :
          IF ok
          THEN /\ http_status' = 200
               /\ http_pc' = "after"
               /\ UNCHANGED http_files
          ELSE Except
    /\ UNCHANGED <<http_req, http_size, http_created, http_cleanup, httpOther>>

\* cleanup(response): os.remove on both paths, an OSError passed over
AfterRequest ==
    /\ http_pc = "after"
    /\ http_files' = IF http_cleanup THEN {} ELSE http_files
    /\ http_pc' = "done"
    /\ UNCHANGED <<http_req, http_size, http_created, http_cleanup,
                   http_status, httpOther>>

HttpNext ==
    \/ Validate \/ CreateTemps \/ SaveUpload \/ GenerateCall \/ CheckOutput
    \/ SendFile \/ AfterRequest

SpecHttp == HttpInit /\ [][HttpNext]_vars

(***************************************************************************)
(* Claims about the HTTP service                                           *)
(***************************************************************************)
\* C17: a request that got to create the two temporary files has removed
\* both once its response is sent, whichever way it ends (download, the 400
\* for a missing or empty output, the 500 after an exception); a request
\* that validation rejects creates no temporary file.
C17_TempFilesRemoved ==
    /\ (http_pc = "done" /\ http_created) => http_files = {}
    /\ ~ Valid(http_req) => (~ http_created /\ http_files = {})

====
